---- MODULE Spec2Model ----
(***************************************************************************)
(* Model of codh/char_shapes.py (class CharShapes): the download pipeline  *)
(* (download, _check_integrity), the directory-tree index builder          *)
(* (load_img_list, get_characters_dir) and the accessor (__len__,          *)
(* __getitem__, classes).                                                  *)
(*                                                                         *)
(* Two specifications share the module:                                    *)
(*   Spec       download() invoked repeatedly on a raw folder;             *)
(*   SpecIndex  a CharShapes object constructed over a directory tree,     *)
(*              then read through __len__, __getitem__ and classes().      *)
(***************************************************************************)
EXTENDS Integers, Sequences, FiniteSets, TLC

\* Number of catalog entries modelled (book_ids has 15; the loop treats each alike).
NBooks == 2

VARIABLES
    rawdir,     \* root/raw exists
    zip,        \* zip[k]: content of root/raw/{id}.zip, or Absent
    dir,        \* dir[k]: state of the directory root/raw/{id}
    pc,         \* position of download()
    i,          \* index into book_ids of the entry being processed
    data,       \* bytes returned by data.read() in this iteration, or Absent
    mismatched, \* entries whose local file existed with a wrong checksum when reached
    opened,     \* entries whose URL was opened in this invocation
    fetched,    \* entries whose bytes were read from the network in this invocation
    skipped,    \* entries this invocation skipped as already verified
    prevFull,   \* the previous invocation fetched, extracted and removed every archive
    xfail,      \* entries whose extraction failed and has not succeeded since
    err,        \* an exception was raised in this invocation
    zip0,       \* zip as it was when this invocation began
    dir0,       \* dir as it was when this invocation began
    tree,       \* the directory tree under root/raw (SpecIndex)
    transform,  \* whether a transform callable is configured
    img_list,   \* self.img_list
    classes_list, \* self.classes_list
    result      \* what the last accessor call returned or raised

dvars == <<rawdir, zip, dir, pc, i, data, mismatched, opened, fetched, skipped,
           prevFull, xfail, err, zip0, dir0>>
ivars == <<tree, transform, img_list, classes_list, result>>
vars == <<dvars, ivars>>

(***************************************************************************)
(* Download pipeline                                                       *)
(***************************************************************************)

book_ids == 1..NBooks

\* File contents. Absent: no such file. 0: an empty file (what open(.., 'wb')
\* leaves before anything is written). k in book_ids: the archive published
\* for book k. Other: any other bytes (corrupted, truncated, foreign).
Absent == -1
Other == NBooks + 1
Content == 0..Other
Published(k) == k

\* hashlib.md5 hexdigest of a content, taken as collision free.
Md5(c) == <<"md5", c>>

zips_md5 == [k \in book_ids |-> Md5(Published(k))]

\* A mutant of _check_integrity that accepts any existing file.
check_integrity_exists_only(fcontent, md5) == fcontent # Absent

check_integrity(fcontent, md5) ==
    IF fcontent = Absent THEN FALSE
    ELSE IF Md5(fcontent) # md5 THEN FALSE
    ELSE TRUE

DirStates == {"absent", "partial", "full"}
EndStates == {"idle", "ok", "failed"}

InitDownload ==
    /\ rawdir \in BOOLEAN
    /\ zip \in [book_ids -> {Absent} \cup Content]
    /\ dir \in [book_ids -> DirStates]
    /\ rawdir = FALSE =>
          /\ zip = [k \in book_ids |-> Absent]
          /\ dir = [k \in book_ids |-> "absent"]
    /\ pc = "idle"
    /\ i = 1
    /\ data = Absent
    /\ mismatched = {}
    /\ opened = {}
    /\ fetched = {}
    /\ skipped = {}
    /\ prevFull = FALSE
    /\ xfail = {}
    /\ err = FALSE
    /\ zip0 = zip
    /\ dir0 = dir

\* The caller invokes download().
Invoke ==
    /\ pc \in EndStates
    /\ pc' = "makedirs"
    /\ i' = 1
    /\ data' = Absent
    /\ mismatched' = {}
    /\ opened' = {}
    /\ fetched' = {}
    /\ skipped' = {}
    /\ err' = FALSE
    /\ prevFull' = (pc = "ok" /\ skipped = {} /\ fetched = book_ids)
    /\ zip0' = zip
    /\ dir0' = dir
    /\ UNCHANGED <<rawdir, zip, dir, xfail>>

\* A mutant of the propagation: the exception is caught inside the loop and
\* the loop goes on with the next book_id.
Raise_continue ==
    /\ err' = TRUE
    /\ data' = Absent
    /\ IF i < NBooks
         THEN i' = i + 1 /\ pc' = "urlopen"
         ELSE i' = i /\ pc' = "ok"
    /\ UNCHANGED <<mismatched, opened, fetched, skipped, prevFull>>

\* The exception leaves download(): nothing catches it inside the loop.
Raise ==
    /\ pc' = "failed"
    /\ err' = TRUE
    /\ data' = Absent
    /\ UNCHANGED <<i, mismatched, opened, fetched, skipped, prevFull>>

\* os.makedirs(root/raw): EEXIST is tolerated, any other OSError is raised.
MakeDirs ==
    /\ pc = "makedirs"
    /\ \/ /\ rawdir' = TRUE
          /\ pc' = "urlopen"
          /\ UNCHANGED <<zip, dir, i, data, mismatched, opened, fetched, skipped,
                         prevFull, xfail, err>>
       \/ /\ rawdir = FALSE
          /\ Raise
          /\ UNCHANGED <<rawdir, zip, dir, xfail>>

\* data = urllib.request.urlopen(url), the first statement of every iteration.
UrlOpen ==
    /\ pc = "urlopen"
    /\ \/ /\ opened' = opened \cup {i}
          /\ pc' = "check"
          /\ UNCHANGED <<rawdir, zip, dir, i, data, mismatched, fetched, skipped,
                         prevFull, xfail, err>>
       \/ /\ Raise
          /\ UNCHANGED <<rawdir, zip, dir, xfail>>

\* The loop moves to the next book_id, or download() returns.
NextBook ==
    /\ data' = Absent
    /\ IF i < NBooks
         THEN i' = i + 1 /\ pc' = "urlopen"
         ELSE i' = i /\ pc' = "ok"

\* if self._check_integrity(file_path, self.zips_md5[filename]): continue
CheckIntegrity ==
    /\ pc = "check"
    /\ IF check_integrity(zip[i], zips_md5[i])
         THEN /\ skipped' = skipped \cup {i}
              /\ NextBook
         ELSE /\ pc' = "write"
              /\ UNCHANGED <<i, data, skipped>>
    /\ mismatched' = IF zip[i] # Absent /\ Md5(zip[i]) # zips_md5[i]
                        THEN mismatched \cup {i} ELSE mismatched
    /\ UNCHANGED <<rawdir, zip, dir, opened, fetched, prevFull, xfail, err>>

\* Content of a file opened with 'wb' after new was written to it in full.
written(old, new) == new

\* with open(file_path, 'wb') as f: f.write(data.read())
WriteFile ==
    /\ pc = "write"
    /\ \/ \* open() fails: the file is as it was
          /\ Raise
          /\ UNCHANGED <<rawdir, zip, dir, xfail>>
       \/ \* open() truncated the file, then data.read() or f.write() failed
          /\ \E c \in {0, Other} : zip' = [zip EXCEPT ![i] = c]
          /\ Raise
          /\ UNCHANGED <<rawdir, dir, xfail>>
       \/ \* the server's bytes, whatever they are, are written in full
          \E b \in Content :
             /\ data' = b
             /\ fetched' = fetched \cup {i}
             /\ zip' = [zip EXCEPT ![i] = written(zip[i], b)]
             /\ pc' = "extract"
             /\ UNCHANGED <<rawdir, dir, i, mismatched, opened, skipped, prevFull,
                            xfail, err>>

\* zipfile.ZipFile(file_path).extractall(target_dir)
Extract ==
    /\ pc = "extract"
    /\ \/ \* every member is extracted
          /\ zip[i] # 0
          /\ dir' = [dir EXCEPT ![i] = "full"]
          /\ xfail' = xfail \ {i}
          /\ pc' = "unlink"
          /\ UNCHANGED <<rawdir, zip, i, data, mismatched, opened, fetched,
                         skipped, prevFull, err>>
       \/ \* ZipFile() rejects the file: nothing is written
          /\ zip[i] \in {0, Other}
          /\ xfail' = xfail \cup {i}
          /\ Raise
          /\ UNCHANGED <<rawdir, zip, dir>>
       \/ \* extractall() fails part way (disk full, permissions, bad member)
          /\ zip[i] # 0
          /\ dir' = [dir EXCEPT ![i] = IF @ = "full" THEN "full" ELSE "partial"]
          /\ xfail' = xfail \cup {i}
          /\ Raise
          /\ UNCHANGED <<rawdir, zip>>

\* os.unlink(file_path), the last statement of the iteration.
Unlink ==
    /\ pc = "unlink"
    /\ \/ /\ zip' = [zip EXCEPT ![i] = Absent]
          /\ NextBook
          /\ UNCHANGED <<rawdir, dir, mismatched, opened, fetched, skipped, prevFull,
                         xfail, err>>
       \/ /\ Raise
          /\ UNCHANGED <<rawdir, zip, dir, xfail>>

(***************************************************************************)
(* Directory tree, index builder and accessor                              *)
(***************************************************************************)

\* Bounds of the directory trees drawn under root/raw.
MaxDirs == 2
MaxFiles == 2

\* Directory names are sequences of characters. Two contain "U+", one does not.
DirNames ==
    { <<"U", "+", "4", "E", "0", "0">>,
      <<"a", "U", "+">>,
      <<"U", "x", "+">> }

\* sub in name, Python's substring test on strings.
Contains(name, sub) ==
    \E s \in 0..(Len(name) - Len(sub)) :
        \A j \in 1..Len(sub) : name[s + j] = sub[j]

\* "U+" in subdirname
IsLabelName(name) == Contains(name, <<"U", "+">>)

\* A tree is a sequence of directories; node 0 is root/raw itself. Directory n
\* lies in directory t[n].parent, is called t[n].name and directly holds
\* t[n].nfiles regular files.
Nodes(t) == 1..Len(t)

Trees ==
    UNION { { t \in [1..n -> [parent : 0..(n - 1), name : DirNames, nfiles : 0..MaxFiles]] :
                /\ \A m \in 1..n : t[m].parent < m
                /\ \A m1, m2 \in 1..n :
                      (m1 # m2 /\ t[m1].parent = t[m2].parent) => t[m1].name # t[m2].name }
            : n \in 0..MaxDirs }

\* The j-th file name of a directory: "f", "fi", "fii", ...
FileName(j) == <<"f">> \o [x \in 1..(j - 1) |-> "i"]

RECURSIVE PathOf(_, _)
\* os.path.join(dirname, subdirname) accumulated from root/raw down to n.
PathOf(t, n) == IF n = 0 THEN <<>> ELSE Append(PathOf(t, t[n].parent), t[n].name)

\* os.path.basename(path)
basename(path) == path[Len(path)]

\* The subdirectories of n in listing order (here: by node number).
RECURSIVE SortedSeq(_)
SortedSeq(S) ==
    IF S = {} THEN <<>>
    ELSE LET m == CHOOSE x \in S : \A y \in S : x <= y
         IN <<m>> \o SortedSeq(S \ {m})

dirnames(t, n) == SortedSeq({m \in Nodes(t) : t[m].parent = n})

RECURSIVE walk(_, _)
RECURSIVE walk_all(_, _)
\* os.walk(top): top first, then the walk of each subdirectory in turn.
walk(t, top) == <<top>> \o walk_all(t, dirnames(t, top))
walk_all(t, ds) ==
    IF ds = <<>> THEN <<>> ELSE walk(t, Head(ds)) \o walk_all(t, Tail(ds))

RECURSIVE Concat(_)
\* The lists appended one after another, as nested for loops append them.
Concat(seqs) ==
    IF seqs = <<>> THEN <<>> ELSE Head(seqs) \o Concat(Tail(seqs))

\* get_characters_dir(data_dir): every subdirectory met by the walk of
\* root/raw whose name contains "U+".
get_characters_dir(t) ==
    LET labelled(n) == SelectSeq(dirnames(t, n), LAMBDA m : IsLabelName(t[m].name))
        visited == walk(t, 0)
    IN Concat([k \in 1..Len(visited) |-> labelled(visited[k])])

\* The records one walked directory contributes.
records_of(t, n) ==
    [j \in 1..t[n].nfiles |->
        [image_path |-> Append(PathOf(t, n), FileName(j)),
         code_point |-> basename(PathOf(t, n))]]

\* A mutant of load_img_list that records a label only with its first file.
load_img_list_label_on_file(t) ==
    LET chars_dirs == get_characters_dir(t)
        visited == Concat([k \in 1..Len(chars_dirs) |-> walk(t, chars_dirs[k])])
        lst == Concat([k \in 1..Len(visited) |-> records_of(t, visited[k])])
    IN [img_list |-> lst,
        classes |-> { lst[k].code_point : k \in 1..Len(lst) }]

\* load_img_list(): walk every characters directory; every directory the
\* walk visits appends its basename to classes and one record per file.
load_img_list(t) ==
    LET chars_dirs == get_characters_dir(t)
        visited == Concat([k \in 1..Len(chars_dirs) |-> walk(t, chars_dirs[k])])
        labels == [k \in 1..Len(visited) |-> basename(PathOf(t, visited[k]))]
    IN [img_list |-> Concat([k \in 1..Len(visited) |-> records_of(t, visited[k])]),
        classes |-> { labels[k] : k \in 1..Len(labels) }]

\* A mutant of the list access that rejects negative indices.
list_getitem_nonneg(lst, idx) ==
    IF idx < 0 \/ idx >= Len(lst)
      THEN [ok |-> FALSE, at |-> 0]
      ELSE [ok |-> TRUE, at |-> idx + 1]

\* self.img_list[idx]: Python list indexing. at is the 1-based position read.
list_getitem(lst, idx) ==
    IF idx >= Len(lst) \/ idx < -Len(lst)
      THEN [ok |-> FALSE, at |-> 0]
      ELSE [ok |-> TRUE, at |-> IF idx < 0 THEN idx + Len(lst) + 1 ELSE idx + 1]

\* io.imread(path) when it succeeds, and the caller's transform: both opaque.
imread(path) == <<"image", path>>
apply_transform(sample) == <<"transformed", sample>>

\* The state after CharShapes(root, transform, download=False).
InitIndex ==
    /\ tree \in Trees
    /\ transform \in BOOLEAN
    /\ img_list = load_img_list(tree).img_list
    /\ classes_list = load_img_list(tree).classes
    /\ result = [kind |-> "none"]

\* __len__
LenCall ==
    /\ result.kind = "none"
    /\ result' = [kind |-> "len", value |-> Len(img_list)]
    /\ UNCHANGED <<tree, transform, img_list, classes_list>>

\* __getitem__(idx)
GetItem(idx) ==
    LET got == list_getitem(img_list, idx)
        img_info == img_list[got.at]
        sample == [image |-> imread(img_info.image_path),
                   code_point |-> img_info.code_point]
    IN /\ result.kind = "none"
       /\ IF ~got.ok
            THEN result' = [kind |-> "IndexError", idx |-> idx]
            ELSE \/ result' = [kind |-> "DecodeError", idx |-> idx]
                 \/ result' = [kind |-> "sample", idx |-> idx,
                               value |-> IF transform THEN apply_transform(sample)
                                                      ELSE sample]
       /\ UNCHANGED <<tree, transform, img_list, classes_list>>

\* classes()
ClassesCall ==
    /\ result.kind = "none"
    /\ result' = [kind |-> "classes", value |-> classes_list]
    /\ UNCHANGED <<tree, transform, img_list, classes_list>>

\* The caller takes the value or the exception; the object is ready again.
Return ==
    /\ result.kind # "none"
    /\ result' = [kind |-> "none"]
    /\ UNCHANGED <<tree, transform, img_list, classes_list>>

\* Indices a caller may pass: every valid one and some past both ends.
Indices == (0 - (Len(img_list) + 2))..(Len(img_list) + 1)

InitIndexIdle ==
    /\ tree = <<>>
    /\ transform = FALSE
    /\ img_list = <<>>
    /\ classes_list = {}
    /\ result = [kind |-> "none"]

InitDownloadIdle ==
    /\ rawdir = TRUE
    /\ zip = [k \in book_ids |-> Absent]
    /\ dir = [k \in book_ids |-> "full"]
    /\ pc = "idle"
    /\ i = 1
    /\ data = Absent
    /\ mismatched = {}
    /\ opened = {}
    /\ fetched = {}
    /\ skipped = {}
    /\ prevFull = FALSE
    /\ xfail = {}
    /\ err = FALSE
    /\ zip0 = zip
    /\ dir0 = dir

Init == InitDownload /\ InitIndexIdle

Next ==
    \/ Invoke /\ UNCHANGED ivars
    \/ MakeDirs /\ UNCHANGED <<zip0, dir0, ivars>>
    \/ UrlOpen /\ UNCHANGED <<zip0, dir0, ivars>>
    \/ CheckIntegrity /\ UNCHANGED <<zip0, dir0, ivars>>
    \/ WriteFile /\ UNCHANGED <<zip0, dir0, ivars>>
    \/ Extract /\ UNCHANGED <<zip0, dir0, ivars>>
    \/ Unlink /\ UNCHANGED <<zip0, dir0, ivars>>

Spec == Init /\ [][Next]_vars

InitI == InitIndex /\ InitDownloadIdle

NextIndex ==
    \/ LenCall /\ UNCHANGED dvars
    \/ (\E idx \in Indices : GetItem(idx)) /\ UNCHANGED dvars
    \/ ClassesCall /\ UNCHANGED dvars
    \/ Return /\ UNCHANGED dvars

SpecIndex == InitI /\ [][NextIndex]_vars

(***************************************************************************)
(* Properties of the download pipeline (checked under Spec)                *)
(***************************************************************************)

\* C1: after an invocation that fetched, extracted and removed every archive
\* of the catalog, the next invocation opens no URL and reads no archive
\* bytes from the network.
C1_SecondRunFetchesNothing ==
    prevFull => (opened = {} /\ fetched = {})

\* C6: an entry whose local archive exists with a wrong checksum when
\* download() reaches it is never skipped: its URL has been opened, and
\* unless an exception ends the invocation first its bytes are read from the
\* network and, when extraction starts, the local file holds exactly them.
C6_MismatchIsRefetched ==
    /\ skipped \cap mismatched = {}
    /\ \A k \in mismatched :
          /\ k \in opened
          /\ k \in fetched \/ (k = i /\ pc \in {"write", "failed"})
    /\ (pc = "extract" /\ i \in mismatched) => (i \in fetched /\ zip[i] = data)
    /\ pc = "ok" => mismatched \subseteq fetched

\* C6 witness: extraction is about to start on an entry that was found with
\* a wrong checksum and has been overwritten with the fetched bytes.
C6_Witness ==
    /\ pc = "extract"
    /\ i \in mismatched
    /\ zip0[i] \notin {Absent, 0}
    /\ zip[i] = data
    /\ zip[i] # zip0[i]

\* C7: whenever download() returns without error, every entry's extracted
\* directory exists and its archive file does not.
C7_Postcondition ==
    pc = "ok" => \A k \in book_ids : dir[k] # "absent" /\ zip[k] = Absent

\* C8: a failed extraction leaves the archive file in place and raises, and
\* a later invocation that returns without error has extracted that entry.
C8_FailedExtractionIsRetried ==
    /\ (pc = "failed" /\ i \in fetched) => zip[i] # Absent
    /\ pc = "ok" => xfail = {}

\* C9: entries are processed in catalog order; an exception ends the
\* invocation at once (no retry, no later entry opened, fetched, written,
\* extracted or deleted), and the entries before it keep their state.
C9_LaterEntriesUntouched ==
    \A k \in book_ids :
        k > i => /\ zip[k] = zip0[k]
                 /\ dir[k] = dir0[k]
                 /\ k \notin opened \cup fetched \cup skipped

C9_InOrder ==
    /\ opened \in {1..i, 1..(i - 1)}
    /\ fetched \cup skipped \in {1..i, 1..(i - 1)}

C9_StepKeepsOthers ==
    /\ \A k \in book_ids : k # i => (zip'[k] = zip[k] /\ dir'[k] = dir[k])
    /\ pc = "failed" => (pc' = "makedirs" /\ zip' = zip /\ dir' = dir)
    /\ (pc \notin EndStates /\ pc' \notin EndStates) => i' \in {i, i + 1}

C9_AbortOnFailure ==
    /\ [](C9_LaterEntriesUntouched /\ C9_InOrder /\ (err => pc = "failed"))
    /\ [][C9_StepKeepsOthers]_vars

\* C9 witness: the invocation failed on the first entry after writing its
\* file, with a second entry still to come.
C9_Witness ==
    /\ pc = "failed"
    /\ i = 1
    /\ i < NBooks
    /\ 1 \in fetched
    /\ zip[1] # zip0[1]

\* C10: every archive file handed to extraction has the checksum the
\* catalog expects for its entry.
C10_OnlyVerifiedIsExtracted ==
    pc = "extract" => Md5(zip[i]) = zips_md5[i]

(***************************************************************************)
(* Properties of the index and the accessor (checked under SpecIndex)      *)
(***************************************************************************)

RECURSIVE UnderLabel(_, _)
\* Directory n is a "U+" directory or lies beneath one.
UnderLabel(t, n) ==
    /\ n # 0
    /\ IsLabelName(t[n].name) \/ UnderLabel(t, t[n].parent)

LabelDirs == {n \in Nodes(tree) : IsLabelName(tree[n].name)}
IndexedDirs == {n \in Nodes(tree) : UnderLabel(tree, n)}
FilesUnderLabels ==
    UNION { { <<n, j>> : j \in 1..tree[n].nfiles } : n \in IndexedDirs }
RecordLabels == {img_list[k].code_point : k \in 1..Len(img_list)}

\* The sample __getitem__ builds from the record at 1-based position at.
SampleOf(at) ==
    LET s == [image |-> imread(img_list[at].image_path),
              code_point |-> img_list[at].code_point]
    IN IF transform THEN apply_transform(s) ELSE s

C3_IndexCompleteness ==
    /\ Len(img_list) = Cardinality(FilesUnderLabels)
    /\ \A a, b \in 1..Len(img_list) :
          a # b => img_list[a].image_path # img_list[b].image_path
    /\ Cardinality(classes_list) <= Cardinality(LabelDirs)

\* C4 as stated: the labels are exactly the code points of the records.
C4_Original ==
    /\ classes_list = RecordLabels
    /\ result.kind = "classes" => result.value = RecordLabels

\* C4 amended: every record's code point is a label; the labels are exactly
\* the names of the directories walked ("U+" directories and everything
\* beneath them), and the code points of the records are exactly the names
\* of those among them that directly hold a file; classes() returns the
\* labels.
C4_LabelsAreWalkedDirs ==
    /\ RecordLabels \subseteq classes_list
    /\ classes_list = {tree[n].name : n \in IndexedDirs}
    /\ RecordLabels = {tree[n].name : n \in {m \in IndexedDirs : tree[m].nfiles > 0}}
    /\ result.kind = "classes" => result.value = classes_list

\* C4 witness: classes() returned a label that no record carries, next to
\* one that a record does carry.
C4_Witness ==
    /\ result.kind = "classes"
    /\ Len(img_list) > 0
    /\ \E l \in result.value : l \notin RecordLabels

\* C5: every record's code point is the name of the directory that directly
\* holds its image file, and that name contains "U+".
C5_RecordLabel ==
    \A k \in 1..Len(img_list) :
        LET p == img_list[k].image_path
            d == p[Len(p) - 1]
        IN /\ img_list[k].code_point = d
           /\ IsLabelName(d)

====
